---- MODULE Spec2Model ----
(***************************************************************************)
(* A model of the TriviaQA retrieval-augmented-generation demo:            *)
(*   - the two chunkers (local-faiss-demo/build_faiss_index.py and         *)
(*     aoss-serverless-demo/ec2-utils/embd_to_aoss.py),                    *)
(*   - the local FAISS ingest (build_faiss_index.py),                      *)
(*   - the local top-k retrieval (local-faiss-demo/query_rag.py),          *)
(*   - the three query front-ends (local CLI, managed-search CLI, Lambda). *)
(*                                                                         *)
(* Python strings are modelled as sequences of one-character strings, so   *)
(* that split, join, strip and startswith are computed, not assumed.       *)
(***************************************************************************)
EXTENDS Integers, Sequences, FiniteSets, TLC

VARIABLES
    \* ---- chunkers ----
    text,           \* chunk_text's argument `text`
    max_words,      \* chunk_text's argument `max_words`
    overlap,        \* chunk_text's argument `overlap` (windowed chunker only)
    chunker,        \* which chunk_text has been called: "none", "window", "sentence"
    chunks,         \* what the call produced: [raised |-> ..., value |-> list of chunks]
    \* ---- local ingest (build_faiss_index.py __main__ and process_file) ----
    listing,        \* the pages list_objects_v2 yields: a list of lists of keys
    max_files,      \* args.max_files
    files,          \* the keys list_text_files returned
    file_pos,       \* position of `for key in files` (1-based; Len(files)+1: loop over)
    ingest_pc,      \* where the script is
    pf_chunks,      \* process_file's `chunks`
    chunk_pos,      \* position of `for i, chunk in enumerate(chunks)` (1-based)
    embedding,      \* process_file's `embedding`
    index,          \* the FAISS index: its vectors in slot order
    metadata_list,  \* the metadata list
    index_file,     \* what faiss.write_index wrote (NotWritten before)
    metadata_file,  \* what json.dump wrote (NotWritten before)
    \* ---- local retrieval (local-faiss-demo/query_rag.py retrieve_top_k) ----
    loaded_index,   \* load_index's result: the vectors of the index in slot order
    metadata,       \* load_metadata's result
    query_vec,      \* retrieve_top_k's argument `embedding`
    top_k,          \* retrieve_top_k's argument `k`
    labels,         \* I[0], the labels index.search returned
    top_chunks,     \* what retrieve_top_k produced: [raised, value]
    retr_pc,        \* "call" before the call, "done" after it
    \* ---- query front-ends (local CLI, managed-search CLI, Lambda handler) ----
    frontend,       \* "local", "aoss" or "lambda"
    args,           \* the CLI's arguments: its RAG flag and its model id
    line,           \* what input() returned
    event,          \* lambda_handler's event
    rag_enabled,    \* whether retrieval is on for the question
    model_id,       \* the model id handed to the generation function
    question,       \* `question`
    q_pc,           \* where the front-end is for this question
    calls,          \* the external calls made for the question, in order
    context_chunks, \* the retrieved chunk texts, in retrieval order
    prompt,         \* the prompt handed to the generation function
    gen_result,     \* what the generation function did
    output,         \* what the front-end gave its caller
    \* ---- managed-search ingest (embd_to_aoss.py process_files) ----
    aoss_listing,   \* the pages paginator.paginate yields: a list of lists of keys
    aoss_key_pos,   \* position of the object loops in the listing's keys (1-based)
    aoss_chunks,    \* process_files' `chunks`
    aoss_chunk_pos, \* position of `for i, chunk in enumerate(chunks)` (1-based)
    aoss_pc,        \* where process_files is
    aoss_vector,    \* process_files' `embedding`
    embed_calls,    \* the texts handed to embed_text, in order
    aoss_docs,      \* the documents the search index stored, in order
    aoss_log,       \* what process_files reported for the chunks it gave up on
    \* ---- archive extraction (extract_to_s3.py extract_and_upload) ----
    data,           \* json.load(f)["Data"]: per record the filenames of its EntityPages
    count,          \* the argument `count`
    rec_pos,        \* position of `for idx, record in enumerate(data[:count])` (1-based)
    doc_pos,        \* position of `for doc in entity_pages` (1-based)
    ex_pc,          \* where extract_and_upload is
    extracted_files,\* the set `extracted_files`
    uploaded_files, \* the set `uploaded_files`
    local_files,    \* the files present under output_dir
    extractions,    \* per file, how many tar runs extracted it successfully
    uploads,        \* per file, how many s3.upload_file calls succeeded
    upload_failures \* per file, how many s3.upload_file calls raised

chunkVars == <<text, max_words, overlap, chunker, chunks>>
ingestVars == <<listing, max_files, files, file_pos, ingest_pc, pf_chunks, chunk_pos,
                embedding, index, metadata_list, index_file, metadata_file>>

retrVars == <<loaded_index, metadata, query_vec, top_k, labels, top_chunks, retr_pc>>

queryVars == <<frontend, args, line, event, rag_enabled, model_id, question, q_pc,
               calls, context_chunks, prompt, gen_result, output>>

aossVars == <<aoss_listing, aoss_key_pos, aoss_chunks, aoss_chunk_pos, aoss_pc,
              aoss_vector, embed_calls, aoss_docs, aoss_log>>
extractVars == <<data, count, rec_pos, doc_pos, ex_pc, extracted_files, uploaded_files,
                 local_files, extractions, uploads, upload_failures>>
vars == <<chunkVars, ingestVars, retrVars, queryVars, aossVars, extractVars>>

\* ------------------------------------------------------------------ bounds

MaxTextLen == 7
MaxMaxWords == 4
MaxOverlap == 5
MaxMaxFiles == 2        \* --max-files ranges over 0..MaxMaxFiles
MaxDocChunks == 2       \* a document of the bucket yields 0..MaxDocChunks chunks
MaxCoord == 1           \* the leading coordinates of a vector range over 0..MaxCoord
MaxIndexSize == 3       \* a loaded index holds 0..MaxIndexSize vectors
MaxK == 4               \* retrieve_top_k is called with k in 1..MaxK
MaxHits == 2            \* a k-NN search of the cluster returns 0..MaxHits chunks

\* ------------------------------------------------------- Python built-ins

Min(a, b) == IF a <= b THEN a ELSE b
Max(a, b) == IF a >= b THEN a ELSE b

\* str.isspace for the characters of the model
Whitespace == {" ", "\n"}

\* the character class [.!?] of the sentence splitter
SentenceEnd == {".", "!", "?"}

\* All sequences over S of length at most n
SeqsUpTo(S, n) == UNION {[1..m -> S] : m \in 0..n}

\* Python slice s[lo:hi] for 0 <= lo (0-based, hi exclusive, clipped to len(s))
Slice(s, lo, hi) == SubSeq(s, lo + 1, Min(hi, Len(s)))

\* The words of s[lo..hi], a range that starts and ends at a word boundary.
\* The range is cut at a whitespace character nearest its middle, so that
\* long documents are split by halving.
RECURSIVE SplitRange(_, _, _)
SplitRange(s, lo, hi) ==
    IF lo > hi THEN <<>>
    ELSE IF \A i \in lo..hi : s[i] \notin Whitespace THEN <<SubSeq(s, lo, hi)>>
    ELSE LET mid == (lo + hi) \div 2
             IsCut(m) == m >= lo /\ m <= hi /\ s[m] \in Whitespace
             d == CHOOSE x \in 0..(hi - lo) :
                      /\ IsCut(mid - x) \/ IsCut(mid + x)
                      /\ \A y \in 0..(x - 1) : ~(IsCut(mid - y) \/ IsCut(mid + y))
             m == IF IsCut(mid - d) THEN mid - d ELSE mid + d
         IN  SplitRange(s, lo, m - 1) \o SplitRange(s, m + 1, hi)

\* str.split(): the maximal runs of non-whitespace characters, in order
split(s) == SplitRange(s, 1, Len(s))

RECURSIVE JoinRange(_, _, _, _)
JoinRange(sep, parts, lo, hi) ==
    IF lo = hi THEN parts[lo]
    ELSE LET mid == (lo + hi) \div 2
         IN  JoinRange(sep, parts, lo, mid) \o sep \o JoinRange(sep, parts, mid + 1, hi)

\* sep.join(parts)
join(sep, parts) == IF parts = <<>> THEN <<>> ELSE JoinRange(sep, parts, 1, Len(parts))

RECURSIVE lstrip(_)
lstrip(s) == IF s # <<>> /\ s[1] \in Whitespace THEN lstrip(Tail(s)) ELSE s

RECURSIVE rstrip(_)
rstrip(s) ==
    IF s # <<>> /\ s[Len(s)] \in Whitespace THEN rstrip(SubSeq(s, 1, Len(s) - 1)) ELSE s

\* str.strip()
strip(s) == lstrip(rstrip(s))

\* str.startswith(prefix)
startswith(s, prefix) ==
    Len(prefix) <= Len(s) /\ SubSeq(s, 1, Len(prefix)) = prefix

\* str.endswith(suffix)
endswith(s, suffix) ==
    Len(suffix) <= Len(s) /\ SubSeq(s, Len(s) - Len(suffix) + 1, Len(s)) = suffix

RECURSIVE SkipSpace(_, _)
\* the first index >= i of s that holds no whitespace (Len(s) + 1 if none)
SkipSpace(s, i) ==
    IF i <= Len(s) /\ s[i] \in Whitespace THEN SkipSpace(s, i + 1) ELSE i

\* The matches of (?<=[.!?])\s+ in s: a match starts at a whitespace that
\* follows . ! or ? and takes the whole whitespace run
SentenceBreaks(s) == {i \in 2..Len(s) : s[i] \in Whitespace /\ s[i - 1] \in SentenceEnd}

\* re.split(r'(?<=[.!?])\s+', s): the pieces of s between the matches, in order
re_split_sentences(s) ==
    LET M == SentenceBreaks(s)
        Nth(n) == CHOOSE i \in M : Cardinality({j \in M : j < i}) = n - 1
    IN  [k \in 1..(Cardinality(M) + 1) |->
            SubSeq(s, IF k = 1 THEN 1 ELSE SkipSpace(s, Nth(k - 1)),
                      IF k = Cardinality(M) + 1 THEN Len(s) ELSE Nth(k) - 1)]

\* What a call produced: a returned value or a raised exception
Returned(v) == [raised |-> "", value |-> v]
Raised(e) == [raised |-> e, value |-> <<>>]

\* ---------------------------------------------------------------- chunkers

\* The list comprehension of the windowed loop: one chunk per start, in order,
\* a chunk kept only when it is a non-empty string (`if chunk:`)
RECURSIVE WindowLoop(_, _, _, _)
WindowLoop(words, i, step, mw) ==
    IF i >= Len(words) THEN <<>>
    ELSE LET chunk == join(<<" ">>, Slice(words, i, i + mw))
         IN  (IF chunk # <<>> THEN <<chunk>> ELSE <<>>)
             \o WindowLoop(words, i + step, step, mw)

\* chunk_text with the stride taken to be max_words, the overlap forgotten
chunk_text_stride_bug(t, mw, ov) ==
    LET words == split(t)
    IN  IF mw - ov = 0 THEN Raised("ValueError")
        ELSE IF mw - ov < 0 THEN Returned(<<>>)
        ELSE Returned(WindowLoop(words, 0, mw, mw))

\* build_faiss_index.chunk_text(text, max_words, overlap)
chunk_text(t, mw, ov) ==
    LET words == split(t)
        step == mw - ov
    IN  IF step = 0 THEN Raised("ValueError")          \* range() arg 3 must not be zero
        ELSE IF step < 0 THEN Returned(<<>>)           \* range(0, n, negative) is empty
        ELSE Returned(WindowLoop(words, 0, step, mw))

\* The for-loop of the sentence chunker: st = [chunks, current, count]
RECURSIVE SentenceLoop(_, _, _, _)
SentenceLoop(sentences, k, mw, st) ==
    IF k > Len(sentences) THEN st
    ELSE LET s == sentences[k]
             w == Len(split(s))
         IN  IF st.count + w > mw
             THEN SentenceLoop(sentences, k + 1, mw,
                      [chunks |-> Append(st.chunks, join(<<" ">>, st.current)),
                       current |-> <<s>>, count |-> w])
             ELSE SentenceLoop(sentences, k + 1, mw,
                      [chunks |-> st.chunks,
                       current |-> Append(st.current, s), count |-> st.count + w])

\* embd_to_aoss.chunk_text(text, max_words)
aoss_chunk_text(t, mw) ==
    LET st == SentenceLoop(re_split_sentences(t), 1, mw,
                           [chunks |-> <<>>, current |-> <<>>, count |-> 0])
    IN  Returned(IF st.current # <<>>
                 THEN Append(st.chunks, join(<<" ">>, st.current))
                 ELSE st.chunks)


\* ------------------------------------------------------------ local ingest

\* chunk_text's defaults: max_words=200, overlap=50
DefaultMaxWords == 200
DefaultOverlap == 50

\* embedding_dim = 1536, the dimension of faiss.IndexFlatL2(embedding_dim)
embedding_dim == 1536

\* A vector of d coordinates: h holds its leading coordinates, the others are 0
MkVec(d, h) == [dim |-> d, head |-> h]
NoVector == MkVec(0, <<>>)

\* A file not written yet, and a file holding v
NotWritten == [written |-> FALSE, value |-> <<>>]
Written(v) == [written |-> TRUE, value |-> v]

\* Object keys of the bucket
Key_a_txt == <<"a", ".", "t", "x", "t">>
Key_b_txt == <<"b", ".", "t", "x", "t">>
Key_n_md == <<"n", ".", "m", "d">>
DotTxt == <<".", "t", "x", "t">>

\* What paginator.paginate can yield: pages of keys (a page with no
\* 'Contents' is the empty page)
Listings ==
    { <<>>,
      << <<Key_a_txt>> >>,
      << <<Key_n_md>>, <<>>, <<Key_b_txt>> >>,
      << <<Key_a_txt, Key_n_md>>, <<Key_b_txt>> >>,
      << <<Key_a_txt, Key_n_md, Key_b_txt>> >> }

\* The nested loops of list_text_files from page p, object o on, with the
\* keys kept so far; returns as soon as len(files) >= max_files after an append
RECURSIVE ListLoop(_, _, _, _, _)
ListLoop(pages, p, o, mf, acc) ==
    IF p > Len(pages) THEN acc
    ELSE IF o > Len(pages[p]) THEN ListLoop(pages, p + 1, 1, mf, acc)
    ELSE IF endswith(pages[p][o], DotTxt)
         THEN IF Len(acc) + 1 >= mf
              THEN Append(acc, pages[p][o])
              ELSE ListLoop(pages, p, o + 1, mf, Append(acc, pages[p][o]))
         ELSE ListLoop(pages, p, o + 1, mf, acc)

\* build_faiss_index.list_text_files(bucket, prefix, max_files)
list_text_files(pages, mf) == ListLoop(pages, 1, 1, mf, <<>>)

\* A document of n one-letter words separated by single spaces
DocOfWords(n) == [i \in 1..(2 * n - 1) |-> IF i % 2 = 1 THEN "a" ELSE " "]

\* The documents get_s3_text can return: one for each number of chunks
\* 0..MaxDocChunks that chunk_text cuts with its defaults
DocTexts ==
    { IF c = 0 THEN <<>>
      ELSE DocOfWords((c - 1) * (DefaultMaxWords - DefaultOverlap) + 1) :
      c \in 0..MaxDocChunks }

\* What get_titan_embedding can return: vectors of the index's dimension, and
\* one of another dimension
EmbedResults ==
    { MkVec(embedding_dim, <<0, 0>>), MkVec(embedding_dim, <<1, 0>>),
      MkVec(embedding_dim + 1, <<0, 0>>) }

\* index.add(vector) on a FAISS flat index: the vector takes the next slot
index_add(idx, v) == Append(idx, v)

\* metadata_list.append with its filter applied after the vector was added
metadata_append_filtered(ml, chunk, key) ==
    IF Len(strip(chunk)) < 20 THEN ml ELSE Append(ml, [chunk |-> chunk, source |-> key])

\* metadata_list.append({"chunk": chunk, "source": key})
metadata_append(ml, chunk, key) == Append(ml, [chunk |-> chunk, source |-> key])


\* --------------------------------------------------------- local retrieval

\* TOP_K = 5, the default k of retrieve_top_k
TOP_K == 5

\* Squared Euclidean distance of two vectors of one dimension (IndexFlatL2)
RECURSIVE SumSq(_, _, _)
SumSq(a, b, i) ==
    IF i > Len(a) THEN 0 ELSE (a[i] - b[i]) * (a[i] - b[i]) + SumSq(a, b, i + 1)

L2sqr(u, v) == SumSq(u.head, v.head, 1)

\* Slot i (0-based) comes before slot j in the result of a search for q:
\* smaller distance first, equal distances by ascending slot
Before(idx, q, i, j) ==
    \/ L2sqr(idx[i + 1], q) < L2sqr(idx[j + 1], q)
    \/ L2sqr(idx[i + 1], q) = L2sqr(idx[j + 1], q) /\ i < j

\* The number of slots that come before slot i
Rank(idx, q, i) == Cardinality({j \in 0..(Len(idx) - 1) : Before(idx, q, j, i)})

\* index.search(q, k)[1][0]: k labels, the min(k, ntotal) nearest slots in
\* order, and -1 for every position the index has no vector for
faiss_search(idx, q, k) ==
    [r \in 1..k |->
        IF r <= Len(idx)
        THEN CHOOSE i \in 0..(Len(idx) - 1) : Rank(idx, q, i) = r - 1
        ELSE -1]

\* lst[i] is no IndexError: Python accepts -len(lst) <= i < len(lst)
InRange(lst, i) == -Len(lst) <= i /\ i < Len(lst)

\* lst[i] of a Python list, a negative i counting from the end
PyItem(lst, i) == IF i >= 0 THEN lst[i + 1] ELSE lst[Len(lst) + i + 1]

\* query_rag.retrieve_top_k(index, embedding, metadata, k), given I[0]
retrieve_top_k(I, meta) ==
    IF \E r \in 1..Len(I) : ~InRange(meta, I[r])
    THEN Raised("IndexError")
    ELSE Returned([r \in 1..Len(I) |-> PyItem(meta, I[r])])

\* The chunk text stored for slot i (0-based) of a loaded index: i + 1 letters
SlotChunk(i) == [j \in 1..(i + 1) |-> "a"]

\* The vectors an index can hold
IndexVectors == {MkVec(embedding_dim, <<x, y>>) : x, y \in 0..MaxCoord}


\* ------------------------------------------------ string literals
\* (each Python string literal of the query scripts, one character per element)

\* chr(10)
NL ==
    <<"\n">>

\* the separator "\n\n"
BlankLine ==
    <<"\n", "\n">>

\* model identifiers a caller can pass
ID_claude_v2 ==
    <<"a", "n", "t", "h", "r", "o", "p", "i", "c", ".", "c", "l", "a", "u", "d", "e", "-",
      "v", "2">>

ID_titan_text_lite ==
    <<"a", "m", "a", "z", "o", "n", ".", "t", "i", "t", "a", "n", "-", "t", "e", "x", "t",
      "-", "l", "i", "t", "e", "-", "v", "1">>

ID_mistral_7b ==
    <<"m", "i", "s", "t", "r", "a", "l", ".", "m", "i", "s", "t", "r", "a", "l", "-", "7",
      "b", "-", "i", "n", "s", "t", "r", "u", "c", "t", "-", "v", "0", ":", "2">>

ID_mixtral ==
    <<"m", "i", "s", "t", "r", "a", "l", ".", "m", "i", "x", "t", "r", "a", "l", "-", "8",
      "x", "7", "b", "-", "i", "n", "s", "t", "r", "u", "c", "t", "-", "v", "0", ":", "1">>

ID_cohere_command_r ==
    <<"c", "o", "h", "e", "r", "e", ".", "c", "o", "m", "m", "a", "n", "d", "-", "r", "-",
      "v", "1", ":", "0">>

ID_cohere_command_text ==
    <<"c", "o", "h", "e", "r", "e", ".", "c", "o", "m", "m", "a", "n", "d", "-", "t", "e",
      "x", "t", "-", "v", "1", "4">>

ID_titan_embed ==
    <<"a", "m", "a", "z", "o", "n", ".", "t", "i", "t", "a", "n", "-", "e", "m", "b", "e",
      "d", "-", "t", "e", "x", "t", "-", "v", "1">>

ID_llama ==
    <<"m", "e", "t", "a", ".", "l", "l", "a", "m", "a", "3", "-", "8", "b", "-", "i", "n",
      "s", "t", "r", "u", "c", "t", "-", "v", "1", ":", "0">>

\* the prefixes the generation functions test with startswith
PFX_claude ==
    <<"a", "n", "t", "h", "r", "o", "p", "i", "c", ".", "c", "l", "a", "u", "d", "e">>

PFX_titan_text ==
    <<"a", "m", "a", "z", "o", "n", ".", "t", "i", "t", "a", "n", "-", "t", "e", "x", "t">>

PFX_mistral ==
    <<"m", "i", "s", "t", "r", "a", "l", ".">>

PFX_mistral_7b ==
    <<"m", "i", "s", "t", "r", "a", "l", ".", "m", "i", "s", "t", "r", "a", "l", "-", "7",
      "b">>

PFX_cohere_command_r ==
    <<"c", "o", "h", "e", "r", "e", ".", "c", "o", "m", "m", "a", "n", "d", "-", "r">>

\* the Cohere Command family's common prefix
PFX_cohere_command ==
    <<"c", "o", "h", "e", "r", "e", ".", "c", "o", "m", "m", "a", "n", "d">>

\* local query_rag.py, the prompt of --disable-rag
LocalRawHead ==
    <<"A", "n", "s", "w", "e", "r", " ", "t", "h", "e", " ", "f", "o", "l", "l", "o", "w",
      "i", "n", "g", " ", "q", "u", "e", "s", "t", "i", "o", "n", ":", "\n", "\n", "Q",
      "u", "e", "s", "t", "i", "o", "n", ":", " ">>

LocalRawTail ==
    <<"\n", "\n", "A", "n", "s", "w", "e", "r", ":">>

\* local query_rag.py build_prompt
LocalRagHead ==
    <<"Y", "o", "u", " ", "a", "r", "e", " ", "a", " ", "h", "e", "l", "p", "f", "u", "l",
      " ", "a", "s", "s", "i", "s", "t", "a", "n", "t", ".", " ", "U", "s", "e", " ", "t",
      "h", "e", " ", "f", "o", "l", "l", "o", "w", "i", "n", "g", " ", "c", "o", "n", "t",
      "e", "x", "t", " ", "t", "o", " ", "a", "n", "s", "w", "e", "r", " ", "t", "h", "e",
      " ", "q", "u", "e", "s", "t", "i", "o", "n", ".", "\n", "\n", "C", "o", "n", "t",
      "e", "x", "t", ":", "\n">>

LocalRagMid ==
    <<"\n", "\n", "Q", "u", "e", "s", "t", "i", "o", "n", ":", " ">>

LocalRagTail ==
    <<"\n", "\n", "A", "n", "s", "w", "e", "r", ":">>

\* ec2-utils query_rag.py build_prompt
AossRagHead ==
    <<"U", "s", "e", " ", "t", "h", "e", " ", "c", "o", "n", "t", "e", "x", "t", " ", "b",
      "e", "l", "o", "w", " ", "t", "o", " ", "a", "n", "s", "w", "e", "r", " ", "t", "h",
      "e", " ", "q", "u", "e", "s", "t", "i", "o", "n", ".", "\n", "\n", "C", "o", "n",
      "t", "e", "x", "t", ":", "\n">>

AossRagMid ==
    <<"\n", "\n", "Q", "u", "e", "s", "t", "i", "o", "n", ":", " ">>

AossRagTail ==
    <<"\n", "A", "n", "s", "w", "e", "r", ":">>

\* lambda_function.py lambda_handler's inline template
LambdaRagHead ==
    <<"U", "s", "e", " ", "t", "h", "e", " ", "c", "o", "n", "t", "e", "x", "t", " ", "b",
      "e", "l", "o", "w", " ", "t", "o", " ", "a", "n", "s", "w", "e", "r", " ", "t", "h",
      "e", " ", "q", "u", "e", "s", "t", "i", "o", "n", ".", "\n", "C", "o", "n", "t",
      "e", "x", "t", ":", "\n">>

LambdaRagMid ==
    <<"\n", "\n", "Q", "u", "e", "s", "t", "i", "o", "n", ":", " ">>

LambdaRagTail ==
    <<"\n", "A", "n", "s", "w", "e", "r", ":">>

\* lambda_function.py generate_answer, the Claude prompt wrapper
ClaudeHuman ==
    <<"\n", "\n", "H", "u", "m", "a", "n", ":", " ">>

ClaudeAssistant ==
    <<"\n", "\n", "A", "s", "s", "i", "s", "t", "a", "n", "t", ":">>

\* local query_rag.py call_bedrock_model's default answer
NoOutput ==
    <<"[", "N", "o", " ", "o", "u", "t", "p", "u", "t", "]">>

\* the "Answer:" cue
AnswerCue ==
    <<"A", "n", "s", "w", "e", "r", ":">>

\* values of the enable_rag query parameter
STR_true ==
    <<"t", "r", "u", "e">>

STR_True ==
    <<"T", "r", "u", "e">>

STR_false ==
    <<"f", "a", "l", "s", "e">>

\* lambda_handler's default model_id
DefaultLambdaModel ==
    <<"a", "m", "a", "z", "o", "n", ".", "t", "i", "t", "a", "n", "-", "t", "e", "x", "t",
      "-", "l", "i", "t", "e", "-", "v", "1">>

\* lambda_handler's 400 body
Missing400 ==
    <<"M", "i", "s", "s", "i", "n", "g", " ", "'", "p", "r", "o", "m", "p", "t", "'", " ",
      "q", "u", "e", "r", "y", " ", "p", "a", "r", "a", "m", "e", "t", "e", "r">>

\* local query_rag.py call_bedrock_model's fall-through answer
UnknownFormat ==
    <<"[", "U", "n", "k", "n", "o", "w", "n", " ", "m", "o", "d", "e", "l", " ", "o", "u",
      "t", "p", "u", "t", " ", "f", "o", "r", "m", "a", "t", "]">>


\* ------------------------------------------------------- query front-ends

\* An optional value: a dict key that may be missing
Absent == <<>>
Present(v) == <<v>>

\* dict.get(key, default) on an optional value
Get(opt, default) == IF opt = Absent THEN default ELSE opt[1]

UpperCase ==
    <<"A", "B", "C", "D", "E", "F", "G", "H", "I", "J", "K", "L", "M",
      "N", "O", "P", "Q", "R", "S", "T", "U", "V", "W", "X", "Y", "Z">>
LowerCase ==
    <<"a", "b", "c", "d", "e", "f", "g", "h", "i", "j", "k", "l", "m",
      "n", "o", "p", "q", "r", "s", "t", "u", "v", "w", "x", "y", "z">>

\* str.lower()
lower(s) ==
    [i \in 1..Len(s) |->
        IF \E u \in 1..Len(UpperCase) : UpperCase[u] = s[i]
        THEN LowerCase[CHOOSE u \in 1..Len(UpperCase) : UpperCase[u] = s[i]]
        ELSE s[i]]

Digits == <<"0", "1", "2", "3", "4", "5", "6", "7", "8", "9">>

\* str(n) for a natural number n, as the f-string {i+1} renders it
RECURSIVE py_str(_)
py_str(n) ==
    IF n < Len(Digits) THEN <<Digits[n + 1]>>
    ELSE py_str(n \div Len(Digits)) \o <<Digits[(n % Len(Digits)) + 1]>>

\* local query_rag.py, --disable-rag:
\* f"Answer the following question:\n\nQuestion: {question}\n\nAnswer:"
local_raw_prompt(q) == LocalRawHead \o q \o LocalRawTail

\* local query_rag.build_prompt(chunks, question); chunks are metadata records
local_build_prompt(cs, q) ==
    LET numbered == [i \in 1..Len(cs) |-> <<"[">> \o py_str(i) \o <<"]", " ">> \o cs[i].chunk]
        context == join(BlankLine, numbered)
    IN  LocalRagHead \o context \o LocalRagMid \o q \o LocalRagTail

\* ec2-utils query_rag.build_prompt(user_question, context_chunks)
aoss_build_prompt(q, cs) ==
    LET context_block == join(BlankLine, cs)
    IN  AossRagHead \o context_block \o AossRagMid \o q \o AossRagTail

\* lambda_handler's inline template: the chunks joined with chr(10)
lambda_build_prompt(q, cs) ==
    LambdaRagHead \o join(NL, cs) \o LambdaRagMid \o q \o LambdaRagTail

\* A request body: the family whose keys it carries and the prompt text in it
Body(shape, p) == [shape |-> shape, prompt |-> p]

\* local call_bedrock_model: the request body chosen by the model id's prefix
call_bedrock_model_body(p, mid) ==
    IF startswith(mid, PFX_claude) THEN Returned(Body("claude", p))
    ELSE IF startswith(mid, PFX_titan_text) THEN Returned(Body("titan", p))
    ELSE IF startswith(mid, PFX_mistral) THEN Returned(Body("mistral", p))
    ELSE Raised("ValueError")

\* lambda generate_answer: the request body chosen by the model id's prefix
generate_answer_body(p, mid) ==
    IF startswith(mid, PFX_claude)
    THEN Returned(Body("claude", ClaudeHuman \o p \o ClaudeAssistant))
    ELSE IF startswith(mid, PFX_titan_text) THEN Returned(Body("titan", p))
    ELSE IF startswith(mid, PFX_mistral_7b) THEN Returned(Body("mistral", p))
    ELSE IF startswith(mid, PFX_cohere_command_r) THEN Returned(Body("cohere", p))
    ELSE Raised("ValueError")

\* ec2-utils call_bedrock_generator: the Titan body, whatever the model id
call_bedrock_generator_body(p, mid) == Returned(Body("titan", p))

\* A response body of invoke_model: it carries the answer field of one family
\* (completion, results[0].outputText, outputs[0].text, generations[0].text)
Shapes == {"claude", "titan", "mistral", "cohere"}

\* local call_bedrock_model: the answer read with .get(..., "[No output]")
call_bedrock_model_extract(mid, resp) ==
    LET field == IF startswith(mid, PFX_claude) THEN "claude"
                 ELSE IF startswith(mid, PFX_titan_text) THEN "titan"
                 ELSE IF startswith(mid, PFX_mistral) THEN "mistral"
                 ELSE "none"
    IN  IF field = "none" THEN Returned(UnknownFormat)
        ELSE IF resp.shape = field THEN Returned(resp.text)
        ELSE Returned(NoOutput)

\* lambda generate_answer: the answer read with result[...]; a missing key raises
generate_answer_extract(mid, resp) ==
    LET field == IF startswith(mid, PFX_claude) THEN "claude"
                 ELSE IF startswith(mid, PFX_titan_text) THEN "titan"
                 ELSE IF startswith(mid, PFX_mistral_7b) THEN "mistral"
                 ELSE IF startswith(mid, PFX_cohere_command_r) THEN "cohere"
                 ELSE "none"
    IN  IF field = "none" THEN Raised("NoneReturned")
        ELSE IF resp.shape = field THEN Returned(resp.text)
        ELSE Raised("KeyError")

\* ec2-utils call_bedrock_generator: result["results"][0]["outputText"]
call_bedrock_generator_extract(mid, resp) ==
    IF resp.shape = "titan" THEN Returned(resp.text) ELSE Raised("KeyError")

\* The generation function of each front-end
GenBody(fe, p, mid) ==
    IF fe = "local" THEN call_bedrock_model_body(p, mid)
    ELSE IF fe = "lambda" THEN generate_answer_body(p, mid)
    ELSE call_bedrock_generator_body(p, mid)

GenExtract(fe, mid, resp) ==
    IF fe = "local" THEN call_bedrock_model_extract(mid, resp)
    ELSE IF fe = "lambda" THEN generate_answer_extract(mid, resp)
    ELSE call_bedrock_generator_extract(mid, resp)

\* The state of the generation function: not called, returned or raised
GenNotCalled == [called |-> FALSE, raised |-> "", value |-> <<>>]
GenReturned(v) == [called |-> TRUE, raised |-> "", value |-> v]
GenRaised(e) == [called |-> TRUE, raised |-> e, value |-> <<>>]

\* What the front-end gave its caller for the question
NoOutputYet == [kind |-> "none", status |-> 0, body |-> <<>>]
Printed(a) == [kind |-> "answer", status |-> 0, body |-> a]
ErrorPrinted == [kind |-> "error", status |-> 0, body |-> <<>>]
Uncaught == [kind |-> "uncaught", status |-> 0, body |-> <<>>]
Http(st, b) == [kind |-> "http", status |-> st, body |-> b]

\* Inputs of the front-ends
ModelIds ==
    {ID_claude_v2, ID_titan_text_lite, ID_mistral_7b, ID_mixtral,
     ID_cohere_command_r, ID_cohere_command_text, ID_titan_embed, ID_llama}

Lines == {<<>>, <<" ">>, <<"q">>, <<" ", "q", "?", " ">>}

NoArgs == [flag |-> FALSE, model_id |-> <<>>]
CliArgs == [flag : BOOLEAN, model_id : ModelIds]

NoEvent == [qsp |-> "absent", prompt |-> Absent, model_id |-> Absent, enable_rag |-> Absent]
Events ==
    { NoEvent, [NoEvent EXCEPT !.qsp = "null"] } \cup
    [qsp : {"dict"},
     prompt : {Absent, Present(<<>>), Present(<<"q">>)},
     model_id : {Absent} \cup {Present(m) : m \in ModelIds},
     enable_rag : {Absent, Present(STR_true), Present(STR_True), Present(STR_false)}]

\* Chunks a k-NN search of the cluster can return, and answers of a model
HitChunks == {<<"c">>, <<"d", " ", "e">>}
AnswerTexts == {<<"o", "k">>, <<" ", "o", "k", "\n">>}
Responses == [shape : Shapes, text : AnswerTexts]

\* The index files the local CLI can load: an index of n vectors with its metadata
LocalIndexSizes == {0, 1, TOP_K + 1}
LocalIndexOf(n) == [i \in 1..n |-> MkVec(embedding_dim, <<i % 2, (i \div 2) % 2>>)]
LocalMetadataOf(n) == [i \in 1..n |-> [chunk |-> SlotChunk(i - 1), source |-> Key_a_txt]]
QueryVectors == {MkVec(embedding_dim, <<0, 0>>), MkVec(embedding_dim, <<1, 1>>)}

QueryIdle ==
    /\ frontend = "none"
    /\ args = NoArgs
    /\ line = <<>>
    /\ event = NoEvent
    /\ rag_enabled = FALSE
    /\ model_id = <<>>
    /\ question = <<>>
    /\ q_pc = "idle"
    /\ calls = <<>>
    /\ context_chunks = <<>>
    /\ prompt = <<>>
    /\ gen_result = GenNotCalled
    /\ output = NoOutputYet

\* ------------------------------------------------------- idle components

ChunkIdle ==
    /\ text = <<>>
    /\ max_words = DefaultMaxWords
    /\ overlap = DefaultOverlap
    /\ chunker = "none"
    /\ chunks = Returned(<<>>)

IngestIdle ==
    /\ listing = <<>>
    /\ max_files = 0
    /\ files = <<>>
    /\ file_pos = 1
    /\ ingest_pc = "idle"
    /\ pf_chunks = <<>>
    /\ chunk_pos = 1
    /\ embedding = NoVector
    /\ index = <<>>
    /\ metadata_list = <<>>
    /\ index_file = NotWritten
    /\ metadata_file = NotWritten

RetrIdle ==
    /\ loaded_index = <<>>
    /\ metadata = <<>>
    /\ query_vec = NoVector
    /\ top_k = TOP_K
    /\ labels = <<>>
    /\ top_chunks = Returned(<<>>)
    /\ retr_pc = "idle"

AossIdle ==
    /\ aoss_listing = <<>>
    /\ aoss_key_pos = 1
    /\ aoss_chunks = <<>>
    /\ aoss_chunk_pos = 1
    /\ aoss_pc = "idle"
    /\ aoss_vector = NoVector
    /\ embed_calls = <<>>
    /\ aoss_docs = <<>>
    /\ aoss_log = <<>>

\* The filenames the records name, and the path both the archive member
\* and the S3 key are built from: f"evidence/wikipedia/{filename}"
Filenames == {"A.txt", "B.txt"}
archive_member(filename) == <<"evidence", "wikipedia", filename>>
s3_key(filename) == <<"evidence", "wikipedia", filename>>
Members == {archive_member(f) : f \in Filenames}

NoneYet == [m \in Members |-> 0]

ExtractIdle ==
    /\ data = <<>>
    /\ count = 0
    /\ rec_pos = 1
    /\ doc_pos = 1
    /\ ex_pc = "idle"
    /\ extracted_files = {}
    /\ uploaded_files = {}
    /\ local_files = {}
    /\ extractions = NoneYet
    /\ uploads = NoneYet
    /\ upload_failures = NoneYet

\* ------------------------------------------------- chunker specification

Alphabet == {"a", ".", " "}

ChunkInit ==
    /\ AossIdle
    /\ ExtractIdle
    /\ text \in SeqsUpTo(Alphabet, MaxTextLen)
    /\ max_words \in 1..MaxMaxWords
    /\ overlap \in (-1)..MaxOverlap
    /\ chunker = "none"
    /\ chunks = Returned(<<>>)
    /\ IngestIdle
    /\ RetrIdle
    /\ QueryIdle

CallWindowChunker ==
    /\ chunker = "none"
    /\ chunker' = "window"
    /\ chunks' = chunk_text(text, max_words, overlap)
    /\ UNCHANGED <<text, max_words, overlap>>
    /\ UNCHANGED <<ingestVars, retrVars, queryVars, aossVars, extractVars>>

CallSentenceChunker ==
    /\ chunker = "none"
    /\ chunker' = "sentence"
    /\ chunks' = aoss_chunk_text(text, max_words)
    /\ UNCHANGED <<text, max_words, overlap>>
    /\ UNCHANGED <<ingestVars, retrVars, queryVars, aossVars, extractVars>>

ChunkNext == CallWindowChunker \/ CallSentenceChunker

SpecChunk == ChunkInit /\ [][ChunkNext]_vars

\* ------------------------------------------------------- chunker claims

\* The words of every chunk of a chunk list, in order
RECURSIVE ConcatWords(_)
ConcatWords(cs) == IF cs = <<>> THEN <<>> ELSE split(cs[1]) \o ConcatWords(Tail(cs))

\* The words of a chunk list with, in every chunk after the first, the words
\* it repeats from the chunk before it (at most ov of them) dropped
RECURSIVE DropOverlap(_, _)
DropOverlap(cs, ov) ==
    IF cs = <<>> THEN <<>>
    ELSE LET w == split(cs[1])
         IN  SubSeq(w, Min(ov, Len(w)) + 1, Len(w)) \o DropOverlap(Tail(cs), ov)

Reconstruct(cs, ov) ==
    IF cs = <<>> THEN <<>> ELSE split(cs[1]) \o DropOverlap(Tail(cs), ov)

ValidWindow == 0 <= overlap /\ overlap < max_words

\* Every word position of the document lies in some chunk of the windowed result
WindowCovers ==
    \A p \in 1..Len(split(text)) :
        \E i \in 1..Len(chunks.value) :
            LET start == (i - 1) * (max_words - overlap)
            IN  /\ start < p
                /\ p <= start + Len(split(chunks.value[i]))
                /\ split(chunks.value[i])[p - start] = split(text)[p]

\* C4: every chunk returned by either chunker holds at most max_words words.
C4_ChunkWordBound ==
    (chunker # "none" /\ chunks.raised = "") =>
        \A i \in 1..Len(chunks.value) : Len(split(chunks.value[i])) <= max_words

\* The last ov words of chunk a are the first ov words of chunk b
SharesOverlap(a, b, ov) ==
    LET wa == split(a)
        wb == split(b)
    IN  /\ Len(wa) >= ov
        /\ Len(wb) >= ov
        /\ SubSeq(wa, Len(wa) - ov + 1, Len(wa)) = SubSeq(wb, 1, ov)

\* C5: windowed chunking with 0 <= overlap < max_words: every pair of
\* consecutive chunks other than the pair ending in the last chunk shares
\* exactly overlap words, and chunk i starts at word i * (max_words - overlap).
C5_WindowOverlapAllPairs ==
    (chunker = "window" /\ ValidWindow) =>
        /\ chunks.raised = ""
        /\ \A i \in 1..(Len(chunks.value) - 2) :
               SharesOverlap(chunks.value[i], chunks.value[i + 1], overlap)
        /\ \A i \in 1..Len(chunks.value) :
               split(chunks.value[i]) =
                   Slice(split(text), (i - 1) * (max_words - overlap),
                         (i - 1) * (max_words - overlap) + max_words)

\* C6: for valid parameters, under both policies every word of the document
\* is in some chunk, and the chunks concatenated in order, the words repeated
\* by overlap dropped, are exactly the document's word sequence.
C6_ChunkCoverage ==
    /\ (chunker = "window" /\ ValidWindow) =>
           /\ chunks.raised = ""
           /\ Reconstruct(chunks.value, overlap) = split(text)
           /\ WindowCovers
    /\ chunker = "sentence" =>
           /\ chunks.raised = ""
           /\ ConcatWords(chunks.value) = split(text)

\* C6 witness: a windowed run with overlap that produced at least three chunks
\* out of a four-word document
C6_Witness ==
    /\ chunker = "window"
    /\ ValidWindow
    /\ overlap >= 1
    /\ Len(split(text)) = 4
    /\ Len(chunks.value) >= 3
    /\ Reconstruct(chunks.value, overlap) = split(text)

\* C7: windowed chunking with overlap >= max_words fails with an error and
\* never returns a chunk list.
C7_OverlapRejected ==
    (chunker = "window" /\ overlap >= max_words) => chunks.raised # ""

\* ------------------------------------------- local ingest specification

IngestInit ==
    /\ AossIdle
    /\ ExtractIdle
    /\ ChunkIdle
    /\ RetrIdle
    /\ QueryIdle
    /\ listing \in Listings
    /\ max_files \in 0..MaxMaxFiles
    /\ files = <<>>
    /\ file_pos = 1
    /\ ingest_pc = "list"
    /\ pf_chunks = <<>>
    /\ chunk_pos = 1
    /\ embedding = NoVector
    /\ index = <<>>
    /\ metadata_list = <<>>
    /\ index_file = NotWritten
    /\ metadata_file = NotWritten

\* An uncaught exception: the script ends, nothing after the raise runs
IngestCrash ==
    /\ ingest_pc' = "crashed"
    /\ UNCHANGED <<listing, max_files, files, file_pos, pf_chunks, chunk_pos,
                   embedding, index, metadata_list, index_file, metadata_file>>
    /\ UNCHANGED <<chunkVars, retrVars, queryVars, aossVars, extractVars>>

\* files = list_text_files(args.bucket, args.prefix, args.max_files)
ListFiles ==
    /\ ingest_pc = "list"
    /\ files' = list_text_files(listing, max_files)
    /\ ingest_pc' = "file"
    /\ UNCHANGED <<listing, max_files, file_pos, pf_chunks, chunk_pos,
                   embedding, index, metadata_list, index_file, metadata_file>>
    /\ UNCHANGED <<chunkVars, retrVars, queryVars, aossVars, extractVars>>

\* the S3 listing raises
ListFilesFails == ingest_pc = "list" /\ IngestCrash

\* process_file: text = get_s3_text(bucket, key); chunks = chunk_text(text)
FetchAndChunk ==
    /\ ingest_pc = "file"
    /\ file_pos <= Len(files)
    /\ \E t \in DocTexts :
          LET cs == chunk_text(t, DefaultMaxWords, DefaultOverlap).value
          IN  /\ pf_chunks' = cs
              /\ chunk_pos' = 1
              /\ IF cs = <<>>
                 THEN file_pos' = file_pos + 1 /\ ingest_pc' = "file"
                 ELSE file_pos' = file_pos /\ ingest_pc' = "embed"
    /\ UNCHANGED <<listing, max_files, files, embedding, index, metadata_list,
                   index_file, metadata_file>>
    /\ UNCHANGED <<chunkVars, retrVars, queryVars, aossVars, extractVars>>

\* get_s3_text raises
FetchFails == ingest_pc = "file" /\ file_pos <= Len(files) /\ IngestCrash

\* embedding = get_titan_embedding(chunk)
Embed ==
    /\ ingest_pc = "embed"
    /\ embedding' \in EmbedResults
    /\ ingest_pc' = "add"
    /\ UNCHANGED <<listing, max_files, files, file_pos, pf_chunks, chunk_pos,
                   index, metadata_list, index_file, metadata_file>>
    /\ UNCHANGED <<chunkVars, retrVars, queryVars, aossVars, extractVars>>

\* get_titan_embedding raises
EmbedFails == ingest_pc = "embed" /\ IngestCrash

\* index.add(np.expand_dims(vector, axis=0))
AddVector ==
    /\ ingest_pc = "add"
    /\ embedding.dim = embedding_dim
    /\ index' = index_add(index, embedding)
    /\ ingest_pc' = "append"
    /\ UNCHANGED <<listing, max_files, files, file_pos, pf_chunks, chunk_pos,
                   embedding, metadata_list, index_file, metadata_file>>
    /\ UNCHANGED <<chunkVars, retrVars, queryVars, aossVars, extractVars>>

\* index.add raises (always on a vector of another dimension): index unchanged
AddFails == ingest_pc = "add" /\ IngestCrash

\* metadata_list.append({...}), then the next chunk or the end of process_file
AppendMetadata ==
    /\ ingest_pc = "append"
    /\ metadata_list' = metadata_append(metadata_list, pf_chunks[chunk_pos], files[file_pos])
    /\ IF chunk_pos < Len(pf_chunks)
       THEN chunk_pos' = chunk_pos + 1 /\ file_pos' = file_pos /\ ingest_pc' = "embed"
       ELSE chunk_pos' = chunk_pos /\ file_pos' = file_pos + 1 /\ ingest_pc' = "file"
    /\ UNCHANGED <<listing, max_files, files, pf_chunks, embedding, index,
                   index_file, metadata_file>>
    /\ UNCHANGED <<chunkVars, retrVars, queryVars, aossVars, extractVars>>

\* faiss.write_index(index, args.index_path)
WriteIndex ==
    /\ ingest_pc = "file"
    /\ file_pos > Len(files)
    /\ index_file' = Written(index)
    /\ ingest_pc' = "write_metadata"
    /\ UNCHANGED <<listing, max_files, files, file_pos, pf_chunks, chunk_pos,
                   embedding, index, metadata_list, metadata_file>>
    /\ UNCHANGED <<chunkVars, retrVars, queryVars, aossVars, extractVars>>

\* json.dump(metadata_list, f, indent=2)
WriteMetadata ==
    /\ ingest_pc = "write_metadata"
    /\ metadata_file' = Written(metadata_list)
    /\ ingest_pc' = "done"
    /\ UNCHANGED <<listing, max_files, files, file_pos, pf_chunks, chunk_pos,
                   embedding, index, metadata_list, index_file>>
    /\ UNCHANGED <<chunkVars, retrVars, queryVars, aossVars, extractVars>>

IngestNext ==
    \/ ListFiles \/ ListFilesFails
    \/ FetchAndChunk \/ FetchFails
    \/ Embed \/ EmbedFails
    \/ AddVector \/ AddFails
    \/ AppendMetadata
    \/ WriteIndex \/ WriteMetadata

SpecIngest == IngestInit /\ [][IngestNext]_vars

\* ------------------------------------------------------- ingest claims

\* The script is between two chunks (not between index.add and the append)
AtChunkBoundary == ingest_pc # "append"

\* C1: in the local ingest, with any embedding call or index insertion allowed
\* to fail, the number of metadata records equals the number of vectors of
\* the index before and after the ingest of every chunk, and in the two files
\* whenever both are written.
C1_Pairing ==
    /\ AtChunkBoundary => Len(metadata_list) = Len(index)
    /\ (index_file.written /\ metadata_file.written) =>
           Len(metadata_file.value) = Len(index_file.value)

\* C1 witness: both files written after two documents, three chunks ingested
C1_Witness ==
    /\ ingest_pc = "done"
    /\ Len(files) = 2
    /\ Len(index_file.value) = 3
    /\ Len(metadata_file.value) = 3

\* ---------------------------------------- local retrieval specification

\* An index and its metadata as the ingest leaves them: one record per vector
RetrInit ==
    /\ AossIdle
    /\ ExtractIdle
    /\ ChunkIdle
    /\ IngestIdle
    /\ QueryIdle
    /\ loaded_index \in SeqsUpTo(IndexVectors, MaxIndexSize)
    /\ metadata = [i \in 1..Len(loaded_index) |->
                      [chunk |-> SlotChunk(i - 1), source |-> Key_a_txt]]
    /\ query_vec \in IndexVectors
    /\ top_k \in 1..MaxK
    /\ labels = <<>>
    /\ top_chunks = Returned(<<>>)
    /\ retr_pc = "call"

\* top_chunks = retrieve_top_k(index, embedding, metadata, k)
Retrieve ==
    /\ retr_pc = "call"
    /\ labels' = faiss_search(loaded_index, query_vec, top_k)
    /\ top_chunks' = retrieve_top_k(labels', metadata)
    /\ retr_pc' = "done"
    /\ UNCHANGED <<loaded_index, metadata, query_vec, top_k>>
    /\ UNCHANGED <<chunkVars, ingestVars, queryVars, aossVars, extractVars>>

RetrNext == Retrieve

SpecRetrieve == RetrInit /\ [][RetrNext]_vars

\* ---------------------------------------------------- retrieval claims

\* C2: for an index of n entries and k >= 1, retrieve_top_k returns exactly
\* min(k, n) records, each the metadata record of a distinct slot the search
\* returned; nothing is repeated or invented to pad the result up to k.
\* (Stated for n >= 1; the empty index is the case of C3.)
C2_ReturnsMinKN ==
    (retr_pc = "done" /\ Len(loaded_index) >= 1) =>
        LET n == Len(loaded_index)
            m == Min(top_k, n)
        IN  /\ top_chunks.raised = ""
            /\ Len(top_chunks.value) = m
            /\ \A r \in 1..m :
                   /\ labels[r] \in 0..(n - 1)
                   /\ top_chunks.value[r] = metadata[labels[r] + 1]
            /\ \A r1, r2 \in 1..m : r1 # r2 => labels[r1] # labels[r2]

\* C3: retrieval against an empty index returns an empty sequence of records
\* and raises no error, for every query vector and every k.
C3_EmptyIndexReturnsEmpty ==
    (retr_pc = "done" /\ Len(loaded_index) = 0) => top_chunks = Returned(<<>>)

\* ------------------------------------------ query front-end specification

QueryInit ==
    /\ AossIdle
    /\ ExtractIdle
    /\ ChunkIdle
    /\ IngestIdle
    /\ frontend \in {"local", "aoss", "lambda"}
    /\ IF frontend = "lambda"
       THEN event \in Events /\ args = NoArgs /\ line = <<>>
       ELSE event = NoEvent /\ args \in CliArgs /\ line \in Lines
    /\ IF frontend = "local"
       THEN \E n \in LocalIndexSizes :
               /\ loaded_index = LocalIndexOf(n)
               /\ metadata = LocalMetadataOf(n)
       ELSE loaded_index = <<>> /\ metadata = <<>>
    /\ query_vec = NoVector
    /\ top_k = TOP_K
    /\ labels = <<>>
    /\ top_chunks = Returned(<<>>)
    /\ retr_pc = "idle"
    /\ rag_enabled = FALSE
    /\ model_id = <<>>
    /\ question = <<>>
    /\ q_pc = "start"
    /\ calls = <<>>
    /\ context_chunks = <<>>
    /\ prompt = <<>>
    /\ gen_result = GenNotCalled
    /\ output = NoOutputYet

QueryFrame == UNCHANGED <<chunkVars, ingestVars, aossVars, extractVars, frontend, args, line, event,
                          loaded_index, metadata, top_k, retr_pc>>

\* An exception swallowed: the front-end goes on to the generation call
Fails_swallowed ==
    /\ q_pc' = "generate"
    /\ output' = output

\* An exception leaves the step that raised it: the local CLI catches only
\* KeyboardInterrupt and dies, the managed-search CLI prints the error and
\* asks for the next question, the Lambda handler raises to its runtime
Fails ==
    /\ q_pc' = (IF frontend = "local" THEN "crashed"
                ELSE IF frontend = "aoss" THEN "error_printed" ELSE "raised")
    /\ output' = (IF frontend = "aoss" THEN ErrorPrinted ELSE Uncaught)

\* The two CLIs: question = input(...).strip(); an empty question asks again;
\* retrieval off builds the prompt at once
CliReadQuestion ==
    /\ q_pc = "start"
    /\ frontend \in {"local", "aoss"}
    /\ LET q == strip(line)
           rag == IF frontend = "local" THEN ~args.flag ELSE args.flag
       IN  /\ question' = q
           /\ rag_enabled' = rag
           /\ model_id' = args.model_id
           /\ IF q = <<>>
              THEN q_pc' = "reprompt" /\ prompt' = prompt
              ELSE IF rag
                   THEN q_pc' = "embed" /\ prompt' = prompt
                   ELSE /\ q_pc' = "generate"
                        /\ prompt' = (IF frontend = "local" THEN local_raw_prompt(q) ELSE q)
    /\ UNCHANGED <<calls, context_chunks, gen_result, output, query_vec, labels, top_chunks>>
    /\ QueryFrame

\* lambda_handler: params of an event whose queryStringParameters is null
LambdaParamsNull ==
    /\ q_pc = "start"
    /\ frontend = "lambda"
    /\ event.qsp = "null"
    /\ Fails
    /\ UNCHANGED <<rag_enabled, model_id, question, calls, context_chunks, prompt,
                   gen_result, query_vec, labels, top_chunks>>
    /\ QueryFrame

\* lambda_handler: the parameters read, a missing prompt answered with 400
LambdaParseEvent ==
    /\ q_pc = "start"
    /\ frontend = "lambda"
    /\ event.qsp # "null"
    /\ LET q == Get(event.prompt, <<>>)
           rag == lower(Get(event.enable_rag, STR_false)) = STR_true
       IN  /\ question' = q
           /\ model_id' = Get(event.model_id, DefaultLambdaModel)
           /\ rag_enabled' = rag
           /\ IF q = <<>>
              THEN /\ q_pc' = "returned"
                   /\ output' = Http(400, Missing400)
                   /\ prompt' = prompt
              ELSE /\ output' = output
                   /\ IF rag
                      THEN q_pc' = "embed" /\ prompt' = prompt
                      ELSE q_pc' = "generate" /\ prompt' = q
    /\ UNCHANGED <<calls, context_chunks, gen_result, query_vec, labels, top_chunks>>
    /\ QueryFrame

\* get_embedding / embed_query / embed_text returns the question's vector
EmbedQuestion ==
    /\ q_pc = "embed"
    /\ calls' = Append(calls, "embed")
    /\ query_vec' \in QueryVectors
    /\ q_pc' = "search"
    /\ UNCHANGED <<rag_enabled, model_id, question, context_chunks, prompt,
                   gen_result, output, labels, top_chunks>>
    /\ QueryFrame

\* the embedding call raises
EmbedQuestionFails ==
    /\ q_pc = "embed"
    /\ calls' = Append(calls, "embed")
    /\ Fails
    /\ UNCHANGED <<rag_enabled, model_id, question, context_chunks, prompt,
                   gen_result, query_vec, labels, top_chunks>>
    /\ QueryFrame

\* local CLI: top_chunks = retrieve_top_k(index, embedding, metadata), then
\* prompt = build_prompt(top_chunks, question)
SearchLocal ==
    /\ q_pc = "search"
    /\ frontend = "local"
    /\ calls' = Append(calls, "search")
    /\ labels' = faiss_search(loaded_index, query_vec, TOP_K)
    /\ top_chunks' = retrieve_top_k(labels', metadata)
    /\ IF top_chunks'.raised # ""
       THEN Fails /\ UNCHANGED <<context_chunks, prompt>>
       ELSE /\ context_chunks' = [i \in 1..Len(top_chunks'.value) |-> top_chunks'.value[i].chunk]
            /\ prompt' = local_build_prompt(top_chunks'.value, question)
            /\ q_pc' = "generate"
            /\ output' = output
    /\ UNCHANGED <<rag_enabled, model_id, question, gen_result, query_vec>>
    /\ QueryFrame

\* managed search: context = knn_search(vector), then the prompt is built
SearchCluster ==
    /\ q_pc = "search"
    /\ frontend \in {"aoss", "lambda"}
    /\ calls' = Append(calls, "search")
    /\ \E hits \in SeqsUpTo(HitChunks, MaxHits) :
          /\ context_chunks' = hits
          /\ prompt' = (IF frontend = "aoss" THEN aoss_build_prompt(question, hits)
                        ELSE lambda_build_prompt(question, hits))
    /\ q_pc' = "generate"
    /\ UNCHANGED <<rag_enabled, model_id, question, gen_result, output,
                   query_vec, labels, top_chunks>>
    /\ QueryFrame

\* knn_search raises (a status other than 200, or the request itself)
SearchClusterFails ==
    /\ q_pc = "search"
    /\ frontend \in {"aoss", "lambda"}
    /\ calls' = Append(calls, "search")
    /\ Fails
    /\ UNCHANGED <<rag_enabled, model_id, question, context_chunks, prompt,
                   gen_result, query_vec, labels, top_chunks>>
    /\ QueryFrame

\* the generation function rejects the model id before any transport call
GenerateUnsupported ==
    /\ q_pc = "generate"
    /\ GenBody(frontend, prompt, model_id).raised # ""
    /\ gen_result' = GenRaised(GenBody(frontend, prompt, model_id).raised)
    /\ Fails
    /\ UNCHANGED <<rag_enabled, model_id, question, calls, context_chunks, prompt,
                   query_vec, labels, top_chunks>>
    /\ QueryFrame

\* bedrock.invoke_model raises
GenerateInvokeFails ==
    /\ q_pc = "generate"
    /\ GenBody(frontend, prompt, model_id).raised = ""
    /\ calls' = Append(calls, "generate")
    /\ gen_result' = GenRaised("ClientError")
    /\ Fails
    /\ UNCHANGED <<rag_enabled, model_id, question, context_chunks, prompt,
                   query_vec, labels, top_chunks>>
    /\ QueryFrame

\* bedrock.invoke_model answers; the answer is read from the response and
\* printed (local CLI), printed stripped (managed-search CLI) or returned
\* stripped with status 200 (Lambda); a response without the field raises
GenerateAnswer ==
    /\ q_pc = "generate"
    /\ GenBody(frontend, prompt, model_id).raised = ""
    /\ calls' = Append(calls, "generate")
    /\ \E resp \in Responses :
          LET got == GenExtract(frontend, model_id, resp)
          IN  IF got.raised # ""
              THEN gen_result' = GenRaised(got.raised) /\ Fails
              ELSE /\ gen_result' = GenReturned(got.value)
                   /\ q_pc' = "answered"
                   /\ output' = (IF frontend = "local" THEN Printed(got.value)
                                 ELSE IF frontend = "aoss" THEN Printed(strip(got.value))
                                 ELSE Http(200, strip(got.value)))
    /\ UNCHANGED <<rag_enabled, model_id, question, context_chunks, prompt,
                   query_vec, labels, top_chunks>>
    /\ QueryFrame

QueryNext ==
    \/ CliReadQuestion \/ LambdaParamsNull \/ LambdaParseEvent
    \/ EmbedQuestion \/ EmbedQuestionFails
    \/ SearchLocal \/ SearchCluster \/ SearchClusterFails
    \/ GenerateUnsupported \/ GenerateInvokeFails \/ GenerateAnswer

SpecQuery == QueryInit /\ [][QueryNext]_vars

\* ------------------------------------------------ query front-end claims

\* The prompt has been built and handed (or is about to be handed) to the
\* generation function
PromptBuilt == q_pc = "generate" \/ gen_result.called

\* C8: in every front-end, with retrieval disabled the prompt handed to the
\* generation call is exactly the question string, and no embedding or search
\* call is made for the question.
C8_PassThroughPrompt ==
    (PromptBuilt /\ ~rag_enabled) =>
        /\ prompt = question
        /\ \A i \in 1..Len(calls) : calls[i] \notin {"embed", "search"}

\* s occurs in p starting at position i
OccursAt(p, s, i) == i >= 1 /\ i + Len(s) - 1 <= Len(p) /\ SubSeq(p, i, i + Len(s) - 1) = s

\* The chunk texts in retrieval order, one blank line between consecutive
\* chunks, each plain or numbered "[i] "
PlainBlock(cs) == join(BlankLine, cs)
NumberedBlock(cs) ==
    join(BlankLine, [i \in 1..Len(cs) |-> <<"[">> \o py_str(i) \o <<"]", " ">> \o cs[i]])

\* p is: some heading, the block, then text that holds the question and ends
\* with the "Answer:" cue, nothing but whitespace between question and cue
RendersBlock(p, block, q) ==
    \E i \in 1..(Len(p) + 1) :
        /\ OccursAt(p, block, i)
        /\ \E j \in (i + Len(block))..(Len(p) + 1) :
              /\ OccursAt(p, q, j)
              /\ strip(SubSeq(p, j + Len(q), Len(p))) = AnswerCue

\* C9: with retrieval enabled, every prompt builder renders the retrieved
\* chunk texts in retrieval order, one blank line (two newlines) between
\* consecutive chunks, then the question, then "Answer:" as the final text.
C9_BlankLineSeparatedContext ==
    (PromptBuilt /\ rag_enabled) =>
        /\ \/ RendersBlock(prompt, PlainBlock(context_chunks), question)
           \/ RendersBlock(prompt, NumberedBlock(context_chunks), question)
        /\ endswith(prompt, AnswerCue)

\* The model id belongs to one of the families Claude, Titan Text, Mistral,
\* Cohere Command
KnownFamily(mid) ==
    \/ startswith(mid, PFX_claude)
    \/ startswith(mid, PFX_titan_text)
    \/ startswith(mid, PFX_mistral)
    \/ startswith(mid, PFX_cohere_command)

\* C10: every generation function, called with a model id of none of the four
\* families, fails with an unsupported-model error and makes no generation
\* transport call.
C10_UnsupportedModelRejected ==
    (gen_result.called /\ ~KnownFamily(model_id)) =>
        /\ gen_result.raised = "ValueError"
        /\ \A i \in 1..Len(calls) : calls[i] # "generate"

\* The generation function refused the model id (its ValueError)
Rejected == gen_result.called /\ gen_result.raised = "ValueError"

\* C11: in the Lambda handler and the local CLI loop, a request naming an
\* unsupported model family is rejected before any work begins: no embedding
\* call and no index or search-cluster call precedes the rejection, also with
\* retrieval enabled.
C11_RejectedBeforeAnyWork ==
    (frontend \in {"lambda", "local"} /\ Rejected) =>
        \A i \in 1..Len(calls) : calls[i] \notin {"embed", "search"}

\* ------------------------------------- managed-search ingest specification

\* `if len(chunk.strip()) < 20`
MinChunkChars == 20

\* A word of n letters
Word(n) == [i \in 1..n |-> "a"]

\* The documents get_object can return: the empty document, a word of just
\* MinChunkChars letters, a shorter word padded with blanks, and a sentence of
\* DefaultMaxWords words followed by a short sentence
AossDocTexts ==
    { <<>>,
      Word(MinChunkChars),
      <<" ">> \o Word(MinChunkChars - 1) \o <<" ">>,
      DocOfWords(DefaultMaxWords) \o <<".", " ", "a", ".">> }

\* The keys of all pages in listing order: the two object loops of process_files
RECURSIVE AllKeys(_)
AllKeys(pages) == IF pages = <<>> THEN <<>> ELSE Head(pages) \o AllKeys(Tail(pages))

\* The status codes the search endpoint answers an index request with
IndexStatuses == {200, 201, 400}

AossInit ==
    /\ ChunkIdle
    /\ IngestIdle
    /\ RetrIdle
    /\ QueryIdle
    /\ ExtractIdle
    /\ aoss_listing \in Listings
    /\ aoss_key_pos = 1
    /\ aoss_chunks = <<>>
    /\ aoss_chunk_pos = 1
    /\ aoss_pc = "object"
    /\ aoss_vector = NoVector
    /\ embed_calls = <<>>
    /\ aoss_docs = <<>>
    /\ aoss_log = <<>>

AossFrame == UNCHANGED <<chunkVars, ingestVars, retrVars, queryVars, extractVars, aoss_listing>>

\* the object loops: a key that does not end in ".txt" is passed over, a text
\* file is downloaded and chunked
AossOpenObject ==
    /\ aoss_pc = "object"
    /\ aoss_key_pos <= Len(AllKeys(aoss_listing))
    /\ IF ~endswith(AllKeys(aoss_listing)[aoss_key_pos], DotTxt)
       THEN /\ aoss_key_pos' = aoss_key_pos + 1
            /\ UNCHANGED <<aoss_chunks, aoss_chunk_pos, aoss_pc>>
       ELSE /\ \E t \in AossDocTexts :
                  aoss_chunks' = aoss_chunk_text(t, DefaultMaxWords).value
            /\ aoss_chunk_pos' = 1
            /\ aoss_pc' = "chunk"
            /\ aoss_key_pos' = aoss_key_pos
    /\ UNCHANGED <<aoss_vector, embed_calls, aoss_docs, aoss_log>>
    /\ AossFrame

\* S3 raises (the next page of the listing, or get_object): outside the try
AossFetchFails ==
    /\ aoss_pc = "object"
    /\ aoss_key_pos <= Len(AllKeys(aoss_listing))
    /\ aoss_pc' = "crashed"
    /\ UNCHANGED <<aoss_key_pos, aoss_chunks, aoss_chunk_pos, aoss_vector, embed_calls,
                   aoss_docs, aoss_log>>
    /\ AossFrame

\* `if len(chunk.strip()) < 20: continue`
AossSkipShort ==
    /\ aoss_pc = "chunk"
    /\ aoss_chunk_pos <= Len(aoss_chunks)
    /\ Len(strip(aoss_chunks[aoss_chunk_pos])) < MinChunkChars
    /\ aoss_log' = Append(aoss_log, "short")
    /\ aoss_chunk_pos' = aoss_chunk_pos + 1
    /\ UNCHANGED <<aoss_key_pos, aoss_chunks, aoss_pc, aoss_vector, embed_calls, aoss_docs>>
    /\ AossFrame

\* embedding = embed_text(chunk)
AossEmbed ==
    /\ aoss_pc = "chunk"
    /\ aoss_chunk_pos <= Len(aoss_chunks)
    /\ Len(strip(aoss_chunks[aoss_chunk_pos])) >= MinChunkChars
    /\ embed_calls' = Append(embed_calls, aoss_chunks[aoss_chunk_pos])
    /\ aoss_vector' \in EmbedResults
    /\ aoss_pc' = "index"
    /\ UNCHANGED <<aoss_key_pos, aoss_chunks, aoss_chunk_pos, aoss_docs, aoss_log>>
    /\ AossFrame

\* embed_text raises: `except Exception` reports it, the loop goes on
AossEmbedFails ==
    /\ aoss_pc = "chunk"
    /\ aoss_chunk_pos <= Len(aoss_chunks)
    /\ Len(strip(aoss_chunks[aoss_chunk_pos])) >= MinChunkChars
    /\ embed_calls' = Append(embed_calls, aoss_chunks[aoss_chunk_pos])
    /\ aoss_log' = Append(aoss_log, "exception")
    /\ aoss_chunk_pos' = aoss_chunk_pos + 1
    /\ UNCHANGED <<aoss_key_pos, aoss_chunks, aoss_pc, aoss_vector, aoss_docs>>
    /\ AossFrame

\* index_chunk(chunk, embedding, key): stored on 200 or 201, reported otherwise
AossIndexChunk ==
    /\ aoss_pc = "index"
    /\ \E status \in IndexStatuses :
          IF status \in {200, 201}
          THEN /\ aoss_docs' = Append(aoss_docs,
                       [chunk |-> aoss_chunks[aoss_chunk_pos], embedding |-> aoss_vector,
                        source |-> AllKeys(aoss_listing)[aoss_key_pos]])
               /\ aoss_log' = aoss_log
          ELSE /\ aoss_docs' = aoss_docs
               /\ aoss_log' = Append(aoss_log, "http")
    /\ aoss_chunk_pos' = aoss_chunk_pos + 1
    /\ aoss_pc' = "chunk"
    /\ UNCHANGED <<aoss_key_pos, aoss_chunks, aoss_vector, embed_calls>>
    /\ AossFrame

\* requests.post raises inside index_chunk: `except Exception` reports it
AossIndexRaises ==
    /\ aoss_pc = "index"
    /\ aoss_log' = Append(aoss_log, "exception")
    /\ aoss_chunk_pos' = aoss_chunk_pos + 1
    /\ aoss_pc' = "chunk"
    /\ UNCHANGED <<aoss_key_pos, aoss_chunks, aoss_vector, embed_calls, aoss_docs>>
    /\ AossFrame

\* the chunk loop is over: the next object
AossEndOfChunks ==
    /\ aoss_pc = "chunk"
    /\ aoss_chunk_pos > Len(aoss_chunks)
    /\ aoss_key_pos' = aoss_key_pos + 1
    /\ aoss_pc' = "object"
    /\ UNCHANGED <<aoss_chunks, aoss_chunk_pos, aoss_vector, embed_calls, aoss_docs, aoss_log>>
    /\ AossFrame

\* the object loops are over: process_files returns
AossFinish ==
    /\ aoss_pc = "object"
    /\ aoss_key_pos > Len(AllKeys(aoss_listing))
    /\ aoss_pc' = "done"
    /\ UNCHANGED <<aoss_key_pos, aoss_chunks, aoss_chunk_pos, aoss_vector, embed_calls,
                   aoss_docs, aoss_log>>
    /\ AossFrame

AossNext ==
    \/ AossOpenObject \/ AossFetchFails
    \/ AossSkipShort \/ AossEmbed \/ AossEmbedFails
    \/ AossIndexChunk \/ AossIndexRaises
    \/ AossEndOfChunks \/ AossFinish

SpecAossIngest == AossInit /\ [][AossNext]_vars

\* ------------------------------------------------- ingest failure claims

\* C12: in both ingest pipelines, when embedding or indexing one chunk fails
\* the chunk is skipped and ingest continues: the step that embeds or indexes
\* a chunk never ends the run.
C12_ChunkFailureSkipped ==
    [][ /\ (ingest_pc \in {"embed", "add"} => ingest_pc' # "crashed")
        /\ (aoss_pc \in {"chunk", "index"} => aoss_pc' # "crashed") ]_vars

\* C14: in both ingest pipelines no chunk whose stripped text is shorter than
\* the minimum character threshold is handed to the embedding provider or
\* stored in the index.
C14_ShortChunksNeverEmbedded ==
    /\ \A i \in 1..Len(metadata_list) :
          Len(strip(metadata_list[i].chunk)) >= MinChunkChars
    /\ (ingest_pc \in {"add", "append"} =>
          Len(strip(pf_chunks[chunk_pos])) >= MinChunkChars)
    /\ \A i \in 1..Len(embed_calls) : Len(strip(embed_calls[i])) >= MinChunkChars
    /\ \A i \in 1..Len(aoss_docs) : Len(strip(aoss_docs[i].chunk)) >= MinChunkChars

\* ------------------------------------------- query failure claims

\* With retrieval enabled, the embedding call was made and gave no vector, or
\* the search was made and gave no context to build a prompt from
RetrievalFailed ==
    /\ rag_enabled
    /\ \/ (\E i \in 1..Len(calls) : calls[i] = "embed") /\ query_vec = NoVector
       \/ (\E i \in 1..Len(calls) : calls[i] = "search") /\ prompt = <<>>

\* C13: in every query front-end with retrieval enabled, when the embedding
\* call or the search call fails for a question, the generation call is never
\* made for it, no answer is returned or displayed, and the failure reaches
\* the caller as an exception or an error report.
C13_RetrievalFailurePropagates ==
    RetrievalFailed =>
        /\ ~gen_result.called
        /\ \A i \in 1..Len(calls) : calls[i] # "generate"
        /\ output \in {ErrorPrinted, Uncaught}

\* C13 witness: the managed-search CLI embedded the question, its search
\* failed, and the error was reported
C13_Witness ==
    /\ RetrievalFailed
    /\ frontend = "aoss"
    /\ calls = <<"embed", "search">>
    /\ output = ErrorPrinted

\* The family a model id belongs to: Claude, Titan Text, Mistral, Cohere Command
FamilyOf(mid) ==
    IF startswith(mid, PFX_claude) THEN "claude"
    ELSE IF startswith(mid, PFX_titan_text) THEN "titan"
    ELSE IF startswith(mid, PFX_mistral) THEN "mistral"
    ELSE IF startswith(mid, PFX_cohere_command) THEN "cohere"
    ELSE "none"

\* C15: for each of the four families, generate_answer and call_bedrock_model
\* send the request in the family's own shape and read the answer from the
\* same family's response field; a supported family never yields an
\* unsupported-model error or an empty (None) result.
C15_FamilyShapes ==
    (frontend \in {"local", "lambda"} /\ PromptBuilt /\ KnownFamily(model_id)) =>
        /\ GenBody(frontend, prompt, model_id).raised = ""
        /\ GenBody(frontend, prompt, model_id).value.shape = FamilyOf(model_id)
        /\ \A resp \in Responses :
              resp.shape = FamilyOf(model_id) =>
                  GenExtract(frontend, model_id, resp) = Returned(resp.text)
        /\ gen_result.raised \notin {"ValueError", "NoneReturned"}

\* C18: lambda_handler answers every event that carries no non-empty 'prompt'
\* parameter (absent, empty, or no query-string parameters at all) with
\* status 400, makes no embedding, search or generation call, and never raises.
C18_MissingPromptIs400 ==
    (frontend = "lambda" /\ q_pc # "start" /\ Get(event.prompt, <<>>) = <<>>) =>
        /\ output = Http(400, Missing400)
        /\ calls = <<>>
        /\ ~gen_result.called

\* ------------------------------------------------------- listing claim

IsTextKey(key) == endswith(key, DotTxt)

\* C16: list_text_files returns at most max_files keys for every
\* max_files >= 0 and every paginated listing; every returned key ends in
\* ".txt" and the keys keep the listing order.
C16_AtMostMaxFiles ==
    ingest_pc \notin {"idle", "list"} =>
        /\ Len(files) <= max_files
        /\ \A i \in 1..Len(files) : IsTextKey(files[i])
        /\ files = SubSeq(SelectSeq(AllKeys(listing), IsTextKey), 1, Len(files))

\* ---------------------------------------- archive extraction specification

MaxRecords == 2         \* the JSON file holds 0..MaxRecords records
MaxPages == 2           \* a record names 0..MaxPages EntityPages
MaxCount == 3           \* --count ranges over 0..MaxCount

\* set.add that keeps nothing
set_add_forgets(S, x) == S

\* extracted_files.add(archive_member), uploaded_files.add(s3_key)
set_add(S, x) == S \cup {x}

\* data[:count]
Processed == Slice(data, 0, count)

\* doc["Filename"] of the document the loops are at
Filename == Processed[rec_pos][doc_pos]

ExtractInit ==
    /\ ChunkIdle
    /\ IngestIdle
    /\ RetrIdle
    /\ QueryIdle
    /\ AossIdle
    /\ data \in SeqsUpTo(SeqsUpTo(Filenames, MaxPages), MaxRecords)
    /\ count \in 0..MaxCount
    /\ rec_pos = 1
    /\ doc_pos = 1
    /\ ex_pc = "doc"
    /\ extracted_files = {}
    /\ uploaded_files = {}
    /\ local_files \in SUBSET Members
    /\ extractions = NoneYet
    /\ uploads = NoneYet
    /\ upload_failures = NoneYet

ExtractFrame == UNCHANGED <<chunkVars, ingestVars, retrVars, queryVars, aossVars, data, count>>

\* the loops are at a document of a record
AtDoc == ex_pc = "doc" /\ rec_pos <= Len(Processed) /\ doc_pos <= Len(Processed[rec_pos])

\* `continue`: the next document of the record
ContinueLoop == doc_pos' = doc_pos + 1 /\ ex_pc' = "doc" /\ rec_pos' = rec_pos

\* `if s3_key in uploaded_files: continue`, else on to the upload
UploadedCheck ==
    IF s3_key(Filename) \in uploaded_files
    THEN ContinueLoop
    ELSE ex_pc' = "upload" /\ UNCHANGED <<rec_pos, doc_pos>>

\* `if archive_member in extracted_files: continue`
SkipExtracted ==
    /\ AtDoc
    /\ archive_member(Filename) \in extracted_files
    /\ ContinueLoop
    /\ UNCHANGED <<extracted_files, uploaded_files, local_files, extractions, uploads,
                   upload_failures>>
    /\ ExtractFrame

\* tar extracts the member: it is now present locally and remembered
ExtractMember ==
    /\ AtDoc
    /\ archive_member(Filename) \notin extracted_files
    /\ archive_member(Filename) \notin local_files
    /\ local_files' = local_files \cup {archive_member(Filename)}
    /\ extractions' = [extractions EXCEPT ![archive_member(Filename)] = @ + 1]
    /\ extracted_files' = set_add(extracted_files, archive_member(Filename))
    /\ UploadedCheck
    /\ UNCHANGED <<uploaded_files, uploads, upload_failures>>
    /\ ExtractFrame

\* tar fails (CalledProcessError): reported, `continue`
ExtractMemberFails ==
    /\ AtDoc
    /\ archive_member(Filename) \notin extracted_files
    /\ archive_member(Filename) \notin local_files
    /\ ContinueLoop
    /\ UNCHANGED <<extracted_files, uploaded_files, local_files, extractions, uploads,
                   upload_failures>>
    /\ ExtractFrame

\* the file already exists locally: no extraction, the member is remembered
SkipExtract ==
    /\ AtDoc
    /\ archive_member(Filename) \notin extracted_files
    /\ archive_member(Filename) \in local_files
    /\ extracted_files' = set_add(extracted_files, archive_member(Filename))
    /\ UploadedCheck
    /\ UNCHANGED <<uploaded_files, local_files, extractions, uploads, upload_failures>>
    /\ ExtractFrame

\* s3.upload_file succeeds: the key is remembered
Upload ==
    /\ ex_pc = "upload"
    /\ uploads' = [uploads EXCEPT ![s3_key(Filename)] = @ + 1]
    /\ uploaded_files' = set_add(uploaded_files, s3_key(Filename))
    /\ ContinueLoop
    /\ UNCHANGED <<extracted_files, local_files, extractions, upload_failures>>
    /\ ExtractFrame

\* s3.upload_file raises: reported, the loop goes on
UploadFails ==
    /\ ex_pc = "upload"
    /\ upload_failures' = [upload_failures EXCEPT ![s3_key(Filename)] = @ + 1]
    /\ ContinueLoop
    /\ UNCHANGED <<extracted_files, uploaded_files, local_files, extractions, uploads>>
    /\ ExtractFrame

\* the documents of the record are done: the next record
NextRecord ==
    /\ ex_pc = "doc"
    /\ rec_pos <= Len(Processed)
    /\ doc_pos > Len(Processed[rec_pos])
    /\ rec_pos' = rec_pos + 1
    /\ doc_pos' = 1
    /\ UNCHANGED <<ex_pc, extracted_files, uploaded_files, local_files, extractions,
                   uploads, upload_failures>>
    /\ ExtractFrame

\* the records are done: extract_and_upload returns
ExtractReturn ==
    /\ ex_pc = "doc"
    /\ rec_pos > Len(Processed)
    /\ ex_pc' = "done"
    /\ UNCHANGED <<rec_pos, doc_pos, extracted_files, uploaded_files, local_files,
                   extractions, uploads, upload_failures>>
    /\ ExtractFrame

ExtractNext ==
    \/ SkipExtracted \/ ExtractMember \/ ExtractMemberFails \/ SkipExtract
    \/ Upload \/ UploadFails
    \/ NextRecord \/ ExtractReturn

SpecExtract == ExtractInit /\ [][ExtractNext]_vars

\* ----------------------------------------------------- extraction claim

\* How many documents of the processed records name the file
References(f) ==
    Cardinality({rd \in (1..MaxRecords) \X (1..MaxPages) :
                    /\ rd[1] <= Len(Processed)
                    /\ rd[2] <= Len(Processed[rd[1]])
                    /\ Processed[rd[1]][rd[2]] = f})

\* The file was present locally before the run: it is there and no tar run
\* put it there
AlreadyLocal(f) == archive_member(f) \in local_files /\ extractions[archive_member(f)] = 0

\* C17: within one run of extract_and_upload no archive member is extracted
\* successfully more than once and no S3 key is uploaded successfully more
\* than once; a referenced file that is already extracted locally is uploaded
\* exactly once by the end of the run unless its upload failed.
C17_NoDuplicateWork ==
    /\ \A m \in Members : extractions[m] <= 1 /\ uploads[m] <= 1
    /\ ex_pc = "done" =>
          \A f \in Filenames :
              (AlreadyLocal(f) /\ References(f) >= 1 /\ upload_failures[s3_key(f)] = 0)
                  => uploads[s3_key(f)] = 1

\* C17 witness: the run is over; A.txt, present locally and named by two
\* documents, was uploaded once, and B.txt was extracted once and uploaded once
C17_Witness ==
    /\ ex_pc = "done"
    /\ AlreadyLocal("A.txt")
    /\ References("A.txt") = 2
    /\ uploads[s3_key("A.txt")] = 1
    /\ extractions[archive_member("B.txt")] = 1
    /\ uploads[s3_key("B.txt")] = 1

====
